---- MODULE Spec2Model ----
(***************************************************************************)
(* Model of the deployment orchestrator:                                   *)
(*   - src/lambda/git-ci-logger.py          queue consumer + audit recorder *)
(*   - src/lambda/eks-status.py             executor, revision get/status/  *)
(*                                          describe                        *)
(*   - src/lambda/nlp-for-devops-eks-prod.py executor, revision restart/    *)
(*                                          apply/set_image                 *)
(*                                                                         *)
(* Text is modelled as a sequence of tokens: "/" and ":" are tokens of     *)
(* their own, every other token stands for a run of characters holding     *)
(* neither.  External services (SQS, DynamoDB, Lambda invoke, STS, EKS,    *)
(* kubectl) answer nondeterministically: every call either succeeds or     *)
(* raises.                                                                 *)
(***************************************************************************)
EXTENDS Integers, Sequences, FiniteSets, TLC

\* ------------------------------------------------------------------ bounds
\* Messages initially in the queue.
MaxMsgs == 2
\* Records the platform hands to one push-mode invocation.
MaxBatch == 2
\* Processing attempts that reach the build-id generation (caps the counter).
MaxAttempts == 2
\* Pieces a manifest text is put together from.
MaxChunks == 3
\* Tokens of the path of a repository URL.
MaxUrlLen == 4

\* ------------------------------------------------------------------ state
VARIABLES
    queue,      \* SQS: the messages in the queue, [id, body]
    table,      \* DynamoDB table: the set of rows, keyed by build_id
    invoked,    \* the payloads lambda_client.invoke accepted, in order
    uuidCtr,    \* number of uuid4() values drawn so far
    trace,      \* external calls of the current consumer invocation, in order
    mode,       \* "poll" | "push": how this deployment consumes the queue
    hpc,        \* push handler: "idle" | "loop" | "returned" | "raised"
    batch,      \* push handler: event['Records']
    idx,        \* push handler: position of the for loop (1-based)
    hret,       \* push handler: 0 (nothing returned) or the statusCode returned
    pollMsg,    \* manual poll: <<>> or <<message received by the last poll>>
    pollRet     \* manual poll: "none" | "True" | "False" | "None"

loggerVars == <<queue, table, invoked, uuidCtr, trace, mode, hpc, batch, idx,
                hret, pollMsg, pollRet>>

VARIABLES
    inv,        \* executor invocations: Invs -> record (see IdleInvocation)
    fs,         \* the files under /tmp of the execution environment
    pkg         \* the manifest roles packaged beside the handler (/var/task)

execVars == <<inv, fs, pkg>>

VARIABLES
    pfn,        \* the pure function applied last: "none" or its name
    pargs,      \* the arguments it was applied to
    pout        \* what it returned

pureVars == <<pfn, pargs, pout>>
vars == <<loggerVars, execVars, pureVars>>

\* ------------------------------------------------------------- text helpers
Slash == "/"
Colon == ":"

\* str.rstrip('/'): drop every trailing "/".
RECURSIVE RStrip(_)
RStrip(s) ==
    IF s # <<>> /\ s[Len(s)] = Slash THEN RStrip(SubSeq(s, 1, Len(s) - 1)) ELSE s

\* Index of the first "/" of s, 0 when there is none.
RECURSIVE FirstSlash(_, _)
FirstSlash(s, k) ==
    IF k > Len(s) THEN 0
    ELSE IF s[k] = Slash THEN k
    ELSE FirstSlash(s, k + 1)

\* str.split('/'): the segments between the "/" tokens; never empty.
RECURSIVE Split(_)
Split(s) ==
    LET k == FirstSlash(s, 1) IN
    IF k = 0 THEN <<s>>
    ELSE <<SubSeq(s, 1, k - 1)>> \o Split(SubSeq(s, k + 1, Len(s)))

\* dict.get(key, default) on a dict modelled as a function.
Get(d, key, default) == IF key \in DOMAIN d THEN d[key] ELSE default

\* Optional values: None is <<>>, a present value x is <<x>>.
None == <<>>
Some(x) == <<x>>

\* ------------------------------------------------------------ sample inputs
UrlOrgApp    == <<"org", Slash, "app">>
UrlGithub    == <<"https:", Slash, Slash, "github.com", Slash, "acme", Slash, "widget">>
UrlBare      == <<"widget">>
UrlTrailing  == <<"org", Slash, "app", Slash>>

\* Message bodies a queue record may carry.
\*   "bad"     : not JSON, json.loads raises JSONDecodeError
\*   "nondict" : JSON, but not an object (message_data.keys() raises)
\*   "dict"    : a JSON object, data holds its keys
BodyBad     == [kind |-> "bad", data |-> [k \in {} |-> None]]
BodyNonDict == [kind |-> "nondict", data |-> [k \in {} |-> None]]
BodyQa      == [kind |-> "dict",
                data |-> [repo_url |-> UrlOrgApp, version |-> "9-abc",
                          environment |-> "qa"]]
BodyNoEnv   == [kind |-> "dict",
                data |-> [repo_url |-> UrlGithub, version |-> "1.2.3"]]
BodyNoUrl   == [kind |-> "dict", data |-> [environment |-> "QA"]]

Bodies == <<BodyBad, BodyNonDict, BodyQa, BodyNoEnv, BodyNoUrl>>
BodyIds == 1 .. Len(Bodies)
MsgIds == 1 .. MaxMsgs

\* ------------------------------------------------- git-ci-logger.py: helpers
\* One external call of the trace: the operation, the message it was made
\* for, and whether the service answered without an error.
Call(op, mid, ok) == [op |-> op, mid |-> mid, ok |-> ok]

\* json.loads(body): raises JSONDecodeError on a body that is not JSON.
json_loads_ok(body) == body.kind # "bad"

\* table.put_item(Item=item): DynamoDB replaces the row holding the same key.
PutItem(tbl, item) == {r \in tbl : r.build_id # item.build_id} \cup {item}

\* Faulty variant: the store failure is logged and not raised again.
put_item_to_dynamodb_swallow(tbl, item, ok) ==
    [raised |-> FALSE, table |-> IF ok THEN PutItem(tbl, item) ELSE tbl]

\* put_item_to_dynamodb: a store failure is logged and raised again.
put_item_to_dynamodb(tbl, item, ok) ==
    IF ok THEN [raised |-> FALSE, table |-> PutItem(tbl, item)]
    ELSE [raised |-> TRUE, table |-> tbl]

\* extract_full_image_tag: repo_url is None (<<>>) or Some(token sequence).
\* None has no rstrip: the AttributeError is caught and gives "N/A:<version>".
extract_full_image_tag(repo_url, version) ==
    IF repo_url = None THEN <<"N/A", Colon, version>>
    ELSE LET parts == Split(RStrip(repo_url[1]))
             n == Len(parts)
         IN IF n >= 2
            THEN parts[n - 1] \o <<Slash>> \o parts[n] \o <<Colon, version>>
            ELSE <<"N/A", Colon, version>>

\* Faulty variant: the build id is derived from the queue message.
BuildId_from_message(uuid, message_id) == message_id

\* build_id = str(uuid.uuid4()): a value no earlier attempt has drawn (the
\* model takes uuid4 to be collision-free and numbers the draws).
BuildId(uuid, message_id) == uuid

\* message_data.get('environment', 'prod')
CurrentEnvironment(message_data) == Get(message_data, "environment", "prod")

\* Faulty variant: the namespace is not taken from the message.
EksPayload_prod(full_image_tag, namespace_to_deploy) ==
    [action |-> "apply", image |-> full_image_tag, namespace |-> "prod"]

\* The payload handed to the executor.
EksPayload(full_image_tag, namespace_to_deploy) ==
    [action |-> "apply", image |-> full_image_tag,
     namespace |-> namespace_to_deploy]

\* The row written to the audit table (the timestamp and the lex_*/bot_*
\* pass-through columns are left out: nothing reads them back).
AuditItem(message_data, message_id, uuid) ==
    LET repo_url == IF "repo_url" \in DOMAIN message_data
                    THEN Some(message_data["repo_url"]) ELSE None
        version == Get(message_data, "version", "latest")
    IN [build_id |-> BuildId(uuid, message_id),
        full_image_tag |-> extract_full_image_tag(repo_url, version),
        repo_url |-> repo_url,
        version |-> version,
        environment |-> CurrentEnvironment(message_data),
        sqs_message_id |-> message_id]

\* process_single_message_data(message_data, message_id), given the parsed
\* body, the next uuid and the answers of the store (putOk) and of the invoke
\* call (invokeOk).  Returns what it did: raised, the table after it, the
\* payloads it handed over, its external calls and the uuids it drew.
process_single_message_data(tbl, body, message_id, uuid, putOk, invokeOk) ==
    IF body.kind # "dict"
    THEN \* message_data.keys() raises before anything else happens
         [raised |-> TRUE, table |-> tbl, payloads |-> <<>>, calls |-> <<>>,
          uuids |-> 0]
    ELSE LET item == AuditItem(body.data, message_id, uuid)
             put == put_item_to_dynamodb(tbl, item, putOk)
             payload == EksPayload(item.full_image_tag, item.environment)
             put_call == Call("put_item", message_id, putOk)
         IN IF put.raised
            THEN [raised |-> TRUE, table |-> put.table, payloads |-> <<>>,
                  calls |-> <<put_call>>, uuids |-> 1]
            ELSE IF ~invokeOk
            THEN [raised |-> TRUE, table |-> put.table, payloads |-> <<>>,
                  calls |-> <<put_call, Call("invoke", message_id, FALSE)>>,
                  uuids |-> 1]
            ELSE [raised |-> FALSE, table |-> put.table,
                  payloads |-> <<payload>>,
                  calls |-> <<put_call, Call("invoke", message_id, TRUE)>>,
                  uuids |-> 1]

\* Parsing then processing one queue message, as both entry points do inside
\* their try block: json.loads, then process_single_message_data.
ParseAndProcess(tbl, msg, uuid, putOk, invokeOk) ==
    LET body == Bodies[msg.body] IN
    IF ~json_loads_ok(body)
    THEN [raised |-> TRUE, table |-> tbl, payloads |-> <<>>,
          calls |-> <<Call("json_loads", msg.id, FALSE)>>, uuids |-> 0]
    ELSE LET r == process_single_message_data(tbl, body, msg.id, uuid,
                                              putOk, invokeOk)
         IN [r EXCEPT !.calls = <<Call("json_loads", msg.id, TRUE)>> \o @]


\* ------------------------------------- git-ci-logger.py: manual-poll entry
\* Faulty variant: the delete sits in a finally clause and always runs.
PollReachesDelete_always(r) == TRUE

\* Whether the poll goes on to sqs.delete_message: the call is the last
\* statement of the try block, reached only when nothing before it raised.
PollReachesDelete(r) == ~r.raised

\* Faulty variant: a failed delete is logged and not raised.
delete_message_swallow(q, msg, ok) ==
    [raised |-> FALSE, queue |-> IF ok THEN q \ {msg} ELSE q]

\* sqs.delete_message(QueueUrl, ReceiptHandle): the message leaves the queue,
\* or the call raises and the queue is as before.
delete_message(q, msg, ok) ==
    IF ok THEN [raised |-> FALSE, queue |-> q \ {msg}]
    ELSE [raised |-> TRUE, queue |-> q]

\* poll_and_process_sqs_message, given the answers of get_queue_url (urlOk)
\* and receive_message (rcvOk), the message received (got: None or Some),
\* and the answers of the store, the invoke call and delete_message.
poll(tbl, q, got, uuid, urlOk, rcvOk, putOk, invokeOk, delOk) ==
    LET nothing == [table |-> tbl, queue |-> q, payloads |-> <<>>,
                    calls |-> <<>>, uuids |-> 0]
        \* the two SQS calls before any message is at hand (message id 0)
        url_call == Call("get_queue_url", 0, urlOk)
        rcv_call == Call("receive_message", 0, rcvOk)
    IN
    IF ~urlOk
    THEN [nothing EXCEPT !.calls = <<url_call>>] @@ [ret |-> "False"]
    ELSE IF ~rcvOk
    THEN [nothing EXCEPT !.calls = <<url_call, rcv_call>>] @@ [ret |-> "False"]
    ELSE IF got = None
    THEN [nothing EXCEPT !.calls = <<url_call, rcv_call>>] @@ [ret |-> "None"]
    ELSE LET msg == got[1]
             r == ParseAndProcess(tbl, msg, uuid, putOk, invokeOk)
             done == [table |-> r.table, queue |-> q, payloads |-> r.payloads,
                      calls |-> <<url_call, rcv_call>> \o r.calls,
                      uuids |-> r.uuids]
             d == delete_message(q, msg, delOk)
             deleted == [done EXCEPT
                           !.queue = d.queue,
                           !.calls = @ \o <<Call("delete_message", msg.id, delOk)>>]
         IN IF ~PollReachesDelete(r)
            THEN done @@ [ret |-> "False"]
            ELSE IF ~d.raised
            THEN deleted @@ [ret |-> "True"]
            ELSE deleted @@ [ret |-> "False"]

HandlerIdle == hpc \in {"idle", "returned", "raised"}

\* The external call that fails in one run of an entry point, if any: the
\* code stops at the first call that raises, so one failing call is the
\* whole of an environment's say in a run.
PollFailures ==
    {"none", "get_queue_url", "receive_message", "put_item", "invoke",
     "delete_message"}
RecordFailures == {"none", "put_item", "invoke"}

poll_and_process_sqs_message ==
    /\ mode = "poll"
    /\ uuidCtr < MaxAttempts
    /\ \E fail \in PollFailures :
       \E got \in {None} \cup {Some(m) : m \in queue} :
          LET p == poll(table, queue, got, uuidCtr + 1,
                        fail # "get_queue_url", fail # "receive_message",
                        fail # "put_item", fail # "invoke",
                        fail # "delete_message")
          IN /\ table' = p.table
             /\ queue' = p.queue
             /\ invoked' = invoked \o p.payloads
             /\ uuidCtr' = uuidCtr + p.uuids
             /\ trace' = p.calls
             /\ pollRet' = p.ret
             /\ pollMsg' = IF fail \in {"get_queue_url", "receive_message"}
                           THEN None ELSE got
             /\ UNCHANGED <<mode, hpc, batch, idx, hret>>
    /\ UNCHANGED <<execVars, pureVars>>

\* ------------------------------------ git-ci-logger.py: push-delivery entry
Range(s) == {s[i] : i \in DOMAIN s}

\* The batches the platform may deliver: 1..MaxBatch distinct queued messages.
Batches(q) ==
    {b \in UNION {[1 .. n -> q] : n \in 1 .. MaxBatch} :
        \A i, j \in DOMAIN b : i # j => b[i] # b[j]}

\* Faulty variant: the except clauses log and go on to the next record.
RecordRaises_swallowed(r) == FALSE

\* lambda_handler: the three except clauses of the loop body all re-raise.
RecordRaises(r) == r.raised

\* lambda_handler(event) with 'Records' in event: entry, up to the for loop.
logger_lambda_handler_start ==
    /\ mode = "push"
    /\ HandlerIdle
    /\ \E b \in Batches(queue) :
          /\ batch' = b
          /\ idx' = 1
          /\ hpc' = "loop"
          /\ hret' = 0
          /\ trace' = <<>>
    /\ UNCHANGED <<queue, table, invoked, uuidCtr, mode, pollMsg, pollRet>>
    /\ UNCHANGED <<execVars, pureVars>>

\* lambda_handler(event) without 'Records': returns 200 at once.
logger_lambda_handler_no_records ==
    /\ mode = "push"
    /\ HandlerIdle
    /\ batch' = <<>>
    /\ idx' = 1
    /\ hpc' = "returned"
    /\ hret' = 200
    /\ trace' = <<>>
    /\ UNCHANGED <<queue, table, invoked, uuidCtr, mode, pollMsg, pollRet>>
    /\ UNCHANGED <<execVars, pureVars>>

\* One iteration of the for loop over event['Records'].
logger_lambda_handler_record ==
    /\ hpc = "loop"
    /\ idx <= Len(batch)
    /\ uuidCtr < MaxAttempts
    /\ \E fail \in RecordFailures :
          LET r == ParseAndProcess(table, batch[idx], uuidCtr + 1,
                                   fail # "put_item", fail # "invoke")
          IN /\ table' = r.table
             /\ invoked' = invoked \o r.payloads
             /\ uuidCtr' = uuidCtr + r.uuids
             /\ trace' = trace \o r.calls
             /\ IF RecordRaises(r)
                THEN hpc' = "raised" /\ idx' = idx
                ELSE hpc' = "loop" /\ idx' = idx + 1
    /\ UNCHANGED <<queue, batch, hret, mode, pollMsg, pollRet>>
    /\ UNCHANGED <<execVars, pureVars>>

\* The loop ran through: the handler returns 200 and the platform, seeing a
\* normal return, deletes the batch from the queue.
logger_lambda_handler_return ==
    /\ hpc = "loop"
    /\ idx > Len(batch)
    /\ hpc' = "returned"
    /\ hret' = 200
    /\ queue' = queue \ Range(batch)
    /\ UNCHANGED <<table, invoked, uuidCtr, trace, batch, idx, mode, pollMsg,
                   pollRet>>
    /\ UNCHANGED <<execVars, pureVars>>

\* ------------------------------------------------------ executor: helpers
\* The two revisions of the executor handler.
RevStatus == "eks-status"
RevProd == "nlp-for-devops-eks-prod"
Revs == {RevStatus, RevProd}

\* Slots for executor invocations sharing one execution environment.
Invs == {1, 2}

CaPath == <<"/tmp/", "ca.crt">>
KubeconfigPath == <<"/tmp/", "kubeconfig">>

\* str.lower() on the namespaces of the sample commands.
Lower(s) ==
    CASE s = "QA" -> "qa"
      [] s = "Prod" -> "prod"
      [] OTHER -> s

\* Sample commands.  Each key is absent (None) or present (Some).
ActionChoices ==
    {None} \cup {Some(a) : a \in {"get", "status", "describe", "restart",
                                  "apply", "set_image", "rollback"}}
NamespaceChoices == {None, Some("qa"), Some("QA")}
DeploymentChoices == {None, Some(""), Some("web")}
ContainerChoices == {None, Some("app")}
ImageChoices == {None, Some(<<"org", Slash, "app", Colon, "9-abc">>)}

\* The event dict holding exactly the keys that are present.
Event(a, n, d, c, im) ==
    LET present == {k \in {"action", "namespace", "deployment", "container",
                           "image"} :
                      CASE k = "action" -> a # None
                        [] k = "namespace" -> n # None
                        [] k = "deployment" -> d # None
                        [] k = "container" -> c # None
                        [] OTHER -> im # None}
    IN [k \in present |->
          CASE k = "action" -> a[1]
            [] k = "namespace" -> n[1]
            [] k = "deployment" -> d[1]
            [] k = "container" -> c[1]
            [] OTHER -> im[1]]

\* Exceptions, with the text str(e) gives.
KeyError(k) == [type |-> "KeyError", str |-> <<"'", k, "'">>]
CalledProcessError(cmd, output) ==
    [type |-> "CalledProcessError",
     str |-> <<"Command ", cmd, " returned non-zero exit status 1.">>,
     output |-> output]
FileNotFoundError(path) ==
    [type |-> "FileNotFoundError",
     str |-> <<"[Errno 2] No such file or directory: ", path>>]
ClientError(op) ==
    [type |-> "ClientError", str |-> <<"An error occurred when calling ", op>>]
NoException == [type |-> "none", str |-> <<>>]

\* What kubectl prints for a command: on success, on a non-zero exit.
Stdout(args) == <<"stdout of", args>>
Stderr(args) == <<"stdout/stderr of", args>>

KubectlOutcomes == {"ok", "nonzero", "notfound"}

\* Faulty variant: the exit status is not checked (subprocess.run without
\* check=True), a non-zero exit returns what the process printed.
run_kubectl_nocheck(kubeconfig_path, args, outcome) ==
    CASE outcome = "ok" ->
           [raised |-> FALSE, value |-> Stdout(args), exc |-> NoException]
      [] outcome = "nonzero" ->
           [raised |-> FALSE, value |-> Stderr(args), exc |-> NoException]
      [] OTHER ->
           [raised |-> TRUE, value |-> <<>>,
            exc |-> FileNotFoundError("/opt/bin/kubectl")]

\* run_kubectl(kubeconfig_path, args): the decoded output, or the exception
\* of subprocess.check_output raised again after printing.
run_kubectl(kubeconfig_path, args, outcome) ==
    LET cmd == <<"/opt/bin/kubectl", "--kubeconfig", kubeconfig_path>> \o args
    IN CASE outcome = "ok" ->
              [raised |-> FALSE, value |-> Stdout(args), exc |-> NoException]
         [] outcome = "nonzero" ->
              [raised |-> TRUE, value |-> <<>>,
               exc |-> CalledProcessError(cmd, Stderr(args))]
         [] OTHER ->
              [raised |-> TRUE, value |-> <<>>,
               exc |-> FileNotFoundError("/opt/bin/kubectl")]

\* One kubectl process started by an invocation: its arguments, how it ended,
\* and the kubeconfig and manifest files as they were when it ran.
KubectlCall(args, outcome, files) ==
    [args |-> args, outcome |-> outcome, files |-> files]

\* An invocation slot before the handler is entered.
IdleInvocation ==
    [pc |-> "idle", rev |-> RevStatus, event |-> Event(None, None, None, None, None),
     kubeconfig_path |-> None, namespace |-> "", action |-> "",
     image |-> <<>>, deployment |-> None, new_image |-> <<>>,
     container |-> "", result |-> <<>>, all_results |-> <<>>, file |-> 1,
     calls |-> <<>>, resp |-> [statusCode |-> 0]]

\* --------------------------------------------- executor: session bootstrap
CLUSTER_NAME == "django-cluster"

\* open(path, "w").write(content) on the files under /tmp.
WriteFile(files, path, content) ==
    [q \in DOMAIN files \cup {path} |->
        IF q = path THEN content ELSE files[q]]

NoFiles == [q \in {} |-> <<>>]

\* How write_ca_and_kubeconfig may end: describe_cluster raises (cluster not
\* found, access denied), the CA data does not decode, or both files are
\* written.
BootstrapOutcomes == {"ok", "describe_cluster", "b64decode"}

KubeconfigContent ==
    <<"certificate-authority: ", CaPath, "server: ", "endpoint of", CLUSTER_NAME,
      "command: ", "/opt/bin/aws-iam-authenticator", "token", "-i", CLUSTER_NAME>>

\* Faulty variant: a failed bootstrap is not reported to the handler.
write_ca_and_kubeconfig_swallow(files, outcome) ==
    IF outcome = "ok"
    THEN [raised |-> FALSE,
          fs |-> WriteFile(WriteFile(files, CaPath, <<"CA of", CLUSTER_NAME>>),
                           KubeconfigPath, KubeconfigContent),
          path |-> Some(KubeconfigPath), exc |-> NoException]
    ELSE [raised |-> FALSE, fs |-> files, path |-> None, exc |-> NoException]

\* write_ca_and_kubeconfig(): the kubeconfig path, or the exception raised.
\* The CA file is opened for writing before its data is decoded, so a decode
\* failure leaves it empty.
write_ca_and_kubeconfig(files, outcome) ==
    CASE outcome = "describe_cluster" ->
           [raised |-> TRUE, fs |-> files, path |-> None,
            exc |-> ClientError("DescribeCluster")]
      [] outcome = "b64decode" ->
           [raised |-> TRUE, fs |-> WriteFile(files, CaPath, <<>>),
            path |-> None,
            exc |-> [type |-> "binascii.Error", str |-> <<"Incorrect padding">>]]
      [] OTHER ->
           [raised |-> FALSE,
            fs |-> WriteFile(WriteFile(files, CaPath, <<"CA of", CLUSTER_NAME>>),
                             KubeconfigPath, KubeconfigContent),
            path |-> Some(KubeconfigPath), exc |-> NoException]

\* The 500 returned when the bootstrap raised.
status_bootstrap_failed(exc) ==
    [statusCode |-> 500,
     body |-> [message |-> <<"Failed to generate kubeconfig.">>,
               error |-> exc.str]]
prod_bootstrap_failed(exc) ==
    [statusCode |-> 500, message |-> <<"Failed to generate kubeconfig.">>,
     error |-> exc.str]

\* lambda_handler entered with an event (either revision).
invoke(i) ==
    /\ inv[i].pc = "idle"
    /\ \E rev \in Revs, a \in ActionChoices, n \in NamespaceChoices,
          d \in DeploymentChoices, c \in ContainerChoices, im \in ImageChoices :
          inv' = [inv EXCEPT ![i] =
                    [@ EXCEPT !.pc = "sts", !.rev = rev,
                              !.event = Event(a, n, d, c, im)]]
    /\ UNCHANGED <<fs, pkg, loggerVars, pureVars>>

\* sts.get_caller_identity(), outside every try block: a failure leaves the
\* handler as an unhandled exception.  The prod revision then reads the image.
get_caller_identity(i) ==
    /\ inv[i].pc = "sts"
    /\ \E ok \in BOOLEAN :
          inv' = [inv EXCEPT ![i] =
                    IF ok
                    THEN [@ EXCEPT !.pc = "bootstrap",
                                   !.image = IF inv[i].rev = RevProd
                                             THEN Get(inv[i].event, "image",
                                                      <<"latest">>)
                                             ELSE <<>>]
                    ELSE [@ EXCEPT !.pc = "raised"]]
    /\ UNCHANGED <<fs, pkg, loggerVars, pureVars>>

\* try: kubeconfig_path = write_ca_and_kubeconfig() except: return 500.
bootstrap(i) ==
    /\ inv[i].pc = "bootstrap"
    /\ \E outcome \in BootstrapOutcomes :
          LET b == write_ca_and_kubeconfig(fs, outcome) IN
          /\ fs' = b.fs
          /\ inv' = [inv EXCEPT ![i] =
                       IF b.raised
                       THEN [@ EXCEPT !.pc = "done",
                                      !.resp = IF inv[i].rev = RevStatus
                                               THEN status_bootstrap_failed(b.exc)
                                               ELSE prod_bootstrap_failed(b.exc)]
                       ELSE [@ EXCEPT !.pc = "dispatch",
                                      !.kubeconfig_path = b.path]]
    /\ UNCHANGED <<pkg, loggerVars, pureVars>>

\* ------------------------------------------------ executor: eks-status.py
\* Python truth value of event.get("deployment"): None and "" are false.
Truthy(d) == d # None /\ d[1] # ""

\* event.get(key): None when the key is absent.
GetOpt(d, key) == IF key \in DOMAIN d THEN Some(d[key]) ELSE None

status_missing_parameter(action) ==
    [statusCode |-> 400,
     body |-> [message |-> <<"Missing required parameter: 'deployment' for action ",
                             action>>]]
status_unknown_action(action) ==
    [statusCode |-> 400, body |-> [message |-> <<"Unknown action: ", action>>]]

\* The unified except block.
status_error(action, deployment, exc) ==
    [statusCode |-> 500,
     body |-> [message |-> <<"kubectl execution failed for action ", action,
                             IF Truthy(deployment) THEN deployment ELSE None>>,
               error |-> exc.str]]

\* The early return of action status.
status_rollout_success(namespace, deployment, output) ==
    [statusCode |-> 200,
     body |-> [message |-> <<"Rollout status retrieved successfully">>,
               namespace |-> namespace, deployment |-> deployment,
               output |-> output]]

\* The unified success return (get, describe).
status_success(action, namespace, deployment, output) ==
    [statusCode |-> 200,
     body |-> [message |-> <<"kubectl executed successfully for action ", action>>,
               namespace |-> namespace, action |-> action,
               deployment |-> deployment, output |-> output]]

\* The kubectl arguments of each call site.
GetArgs(namespace) == <<"get", "all", "-n", namespace>>
RolloutStatusArgs(deployment, namespace, timeout) ==
    <<"rollout", "status", <<"deployment/", deployment>>, "-n", namespace, timeout>>
DescribeArgs(deployment, namespace) ==
    <<"describe", "deployment", deployment, "-n", namespace>>

\* From the namespace/action lookup to the branch taken, up to (not
\* including) the branch's kubectl call.
status_dispatch(i) ==
    /\ inv[i].pc = "dispatch"
    /\ inv[i].rev = RevStatus
    /\ LET event == inv[i].event
           namespace == Get(event, "namespace", "prod")
           action == Get(event, "action", "get")
           deployment == GetOpt(event, "deployment")
           me == [inv[i] EXCEPT !.namespace = namespace, !.action = action]
       IN inv' = [inv EXCEPT ![i] =
            CASE action = "get" -> [me EXCEPT !.pc = "get"]
              [] action \in {"status", "describe"} ->
                   IF ~Truthy(deployment)
                   THEN [me EXCEPT !.pc = "done", !.deployment = deployment,
                                   !.resp = status_missing_parameter(action)]
                   ELSE [me EXCEPT !.pc = action, !.deployment = deployment]
              [] OTHER ->
                   [me EXCEPT !.pc = "done",
                              !.resp = status_unknown_action(action)]]
    /\ UNCHANGED <<fs, pkg, loggerVars, pureVars>>

\* The files a kubectl process reads: the kubeconfig, and the manifest when
\* it is given one.
FilesRead(files, paths) ==
    [q \in paths |-> IF q \in DOMAIN files THEN Some(files[q]) ELSE None]

\* One kubectl call site of eks-status.py with what follows it: the early
\* return, the unified return, or the except block.
status_kubectl(i) ==
    /\ inv[i].pc \in {"get", "status", "describe"}
    /\ inv[i].rev = RevStatus
    /\ \E outcome \in KubectlOutcomes :
          LET me == inv[i]
              dep == IF me.deployment = None THEN "" ELSE me.deployment[1]
              args == CASE me.pc = "get" -> GetArgs(me.namespace)
                        [] me.pc = "status" ->
                             RolloutStatusArgs(dep, me.namespace, "--timeout=120s")
                        [] OTHER -> DescribeArgs(dep, me.namespace)
              r == run_kubectl(me.kubeconfig_path, args, outcome)
              call == KubectlCall(args, outcome, FilesRead(fs, {KubeconfigPath}))
              ran == [me EXCEPT !.calls = Append(@, call), !.pc = "done"]
          IN inv' = [inv EXCEPT ![i] =
               IF r.raised
               THEN [ran EXCEPT !.resp = status_error(me.action, me.deployment, r.exc)]
               ELSE IF me.pc = "status"
               THEN [ran EXCEPT !.result = r.value,
                                !.resp = status_rollout_success(me.namespace, dep,
                                                                r.value)]
               ELSE [ran EXCEPT !.result = r.value,
                                !.resp = status_success(me.action, me.namespace,
                                                        me.deployment, r.value)]]
    /\ UNCHANGED <<fs, pkg, loggerVars, pureVars>>

\* -------------------------------------- executor: nlp-for-devops-eks-prod.py
\* The placeholder "__IMAGE_TAG__", character by character: a manifest or an
\* image may hold a part of it.  Every other token of a manifest or an image
\* stands for a run of characters none of which occurs in the placeholder.
Placeholder == <<"_", "_", "I", "M", "A", "G", "E", "_", "T", "A", "G", "_", "_">>

\* The keys a branch subscripts (event["k"]) before its first kubectl call,
\* in the order it reads them.
RequiredKeys(action) ==
    CASE action = "restart" -> <<"deployment">>
      [] action = "set_image" -> <<"deployment", "container", "image">>
      [] OTHER -> <<>>

\* Faulty variant: the keys are read with event.get(key, ""), none is missed.
FirstMissing_none(event, keys) == ""

\* The first of keys that event lacks: event[key] raises KeyError(key) there.
\* "" when every key is present.
RECURSIVE FirstMissing(_, _)
FirstMissing(event, keys) ==
    IF keys = <<>> THEN ""
    ELSE IF Head(keys) \notin DOMAIN event THEN Head(keys)
    ELSE FirstMissing(event, Tail(keys))

prod_unknown_action(action) ==
    [statusCode |-> 400, message |-> <<"Unknown action: ", action>>]

\* The except block around the dispatch.
prod_error(action, exc) ==
    [statusCode |-> 500,
     message |-> <<"kubectl execution failed for action ", action>>,
     error |-> exc.str]

\* The early return of action set_image.
prod_set_image_success(namespace, deployment, new_image, output, rollout_status) ==
    [statusCode |-> 200, message |-> <<"Image updated successfully">>,
     namespace |-> namespace, deployment |-> deployment, image |-> new_image,
     output |-> output, rollout_status |-> rollout_status]

\* "\n---\n".join(all_results)
RECURSIVE Join(_)
Join(all_results) ==
    IF all_results = <<>> THEN <<>>
    ELSE IF Len(all_results) = 1 THEN all_results[1]
    ELSE all_results[1] \o <<"\n---\n">> \o Join(Tail(all_results))

\* The unified success return (restart, apply).
prod_success(action, namespace, result, all_results) ==
    [statusCode |-> 200,
     message |-> <<"kubectl executed successfully for action ", action>>,
     namespace |-> namespace, action |-> action,
     output |-> IF action = "apply" THEN Join(all_results) ELSE result]

RestartArgs(deployment, namespace) ==
    <<"rollout", "restart", <<"deployment/", deployment>>, "-n", namespace>>
SetImageArgs(deployment, container, new_image, namespace) ==
    <<"set", "image", <<"deployment/", deployment>>,
      <<container, "=", new_image>>, "-n", namespace>>
ApplyArgs(yaml_tmp_path) == <<"apply", "-f", yaml_tmp_path>>

\* Faulty variant: the service manifest is listed before the workload.
FilesToDeploy_service_first(namespace) ==
    << <<"service-", namespace, ".yaml">>, <<"deployment-", namespace, ".yaml">> >>

\* files_to_deploy for a namespace, in the order of the list.
FilesToDeploy(namespace) ==
    << <<"deployment-", namespace, ".yaml">>, <<"service-", namespace, ".yaml">> >>

YamlBasePath(file_name) == <<"/var/task/">> \o file_name
YamlTmpPath(file_name) == <<"/tmp/">> \o file_name

\* The packaged manifests: a workload manifest carries the image placeholder,
\* a service manifest does not.
ManifestText(file_name) ==
    IF file_name[1] = "deployment-"
    THEN <<"kind: Deployment", file_name[2], "image: ">> \o Placeholder
    ELSE <<"kind: Service", file_name[2]>>

\* text.startswith(pat)
StartsWith(text, pat) ==
    Len(pat) <= Len(text) /\ SubSeq(text, 1, Len(pat)) = pat

\* pat in text
Contains(text, pat) ==
    \E k \in 1 .. (Len(text) - Len(pat) + 1) :
       SubSeq(text, k, k + Len(pat) - 1) = pat

\* Faulty variant: str.replace(old, new, 1), only the first occurrence.
RECURSIVE Replace_first(_, _, _)
Replace_first(text, old, new) ==
    IF text = <<>> THEN <<>>
    ELSE IF StartsWith(text, old)
    THEN new \o SubSeq(text, Len(old) + 1, Len(text))
    ELSE <<Head(text)>> \o Replace_first(Tail(text), old, new)

\* str.replace(old, new) for a non-empty old: scanning from the left, every
\* occurrence of old that does not overlap the one before gives way to new;
\* what was substituted is not scanned again.
RECURSIVE Replace(_, _, _)
Replace(text, old, new) ==
    IF text = <<>> THEN <<>>
    ELSE IF StartsWith(text, old)
    THEN new \o Replace(SubSeq(text, Len(old) + 1, Len(text)), old, new)
    ELSE <<Head(text)>> \o Replace(Tail(text), old, new)

\* Step 3 of the apply loop: substitute only when the placeholder is there.
Render(yaml_text, image) ==
    IF Contains(yaml_text, Placeholder)
    THEN Replace(yaml_text, Placeholder, image)
    ELSE yaml_text

\* From the namespace/action lookup to the branch taken, up to (not
\* including) the branch's first external call.
prod_dispatch(i) ==
    /\ inv[i].pc = "dispatch"
    /\ inv[i].rev = RevProd
    /\ LET event == inv[i].event
           namespace == Lower(Get(event, "namespace", "prod"))
           action == Get(event, "action", "get")
           missing == FirstMissing(event, RequiredKeys(action))
           me == [inv[i] EXCEPT !.namespace = namespace, !.action = action]
       IN inv' = [inv EXCEPT ![i] =
            CASE action \in {"restart", "set_image"} ->
                   IF missing # ""
                   THEN [me EXCEPT !.pc = "done",
                                   !.resp = prod_error(action, KeyError(missing))]
                   ELSE [me EXCEPT !.pc = action,
                                   !.deployment = Some(Get(event, "deployment", "")),
                                   !.container = Get(event, "container", ""),
                                   !.new_image = Get(event, "image", <<>>)]
              [] action = "apply" -> [me EXCEPT !.pc = "apply_render", !.file = 1]
              [] OTHER ->
                   [me EXCEPT !.pc = "done",
                              !.resp = prod_unknown_action(action)]]
    /\ UNCHANGED <<fs, pkg, loggerVars, pureVars>>

\* A kubectl call site of restart or set_image with what follows it: the
\* next call, the early return, the unified return, or the except block.
prod_kubectl(i) ==
    /\ inv[i].pc \in {"restart", "set_image", "rollout"}
    /\ inv[i].rev = RevProd
    /\ \E outcome \in KubectlOutcomes :
          LET me == inv[i]
              dep == me.deployment[1]
              args == CASE me.pc = "restart" -> RestartArgs(dep, me.namespace)
                        [] me.pc = "set_image" ->
                             SetImageArgs(dep, me.container, me.new_image,
                                          me.namespace)
                        [] OTHER ->
                             RolloutStatusArgs(dep, me.namespace, "--timeout=60s")
              r == run_kubectl(me.kubeconfig_path, args, outcome)
              call == KubectlCall(args, outcome, FilesRead(fs, {KubeconfigPath}))
              ran == [me EXCEPT !.calls = Append(@, call)]
          IN inv' = [inv EXCEPT ![i] =
               IF r.raised
               THEN [ran EXCEPT !.pc = "done",
                                !.resp = prod_error(me.action, r.exc)]
               ELSE CASE me.pc = "restart" ->
                           [ran EXCEPT !.pc = "done", !.result = r.value,
                                       !.all_results = Append(@, r.value),
                                       !.resp = prod_success(me.action, me.namespace,
                                                   r.value, <<r.value>>)]
                      [] me.pc = "set_image" ->
                           [ran EXCEPT !.pc = "rollout", !.result = r.value]
                      [] OTHER ->
                           [ran EXCEPT !.pc = "done",
                                       !.resp = prod_set_image_success(
                                                   me.namespace, dep, me.new_image,
                                                   me.result, r.value)]]
    /\ UNCHANGED <<fs, pkg, loggerVars, pureVars>>

\* Faulty variant: a namespace without a manifest of its own falls back to
\* the prod manifest of the same role (the deprecated APPLY_FILES).
open_manifest_fallback(package, file_name) ==
    LET fallback == <<file_name[1], "prod", file_name[3]>> IN
    IF file_name \in package
    THEN [raised |-> FALSE, text |-> ManifestText(file_name), exc |-> NoException]
    ELSE IF fallback \in package
    THEN [raised |-> FALSE, text |-> ManifestText(fallback), exc |-> NoException]
    ELSE [raised |-> TRUE, text |-> <<>>,
          exc |-> FileNotFoundError(YamlBasePath(file_name))]

\* with open(yaml_base_path, 'r') as f: yaml_text = f.read()
\* A file that is not in the package raises FileNotFoundError.
open_manifest(package, file_name) ==
    IF file_name \in package
    THEN [raised |-> FALSE, text |-> ManifestText(file_name), exc |-> NoException]
    ELSE [raised |-> TRUE, text |-> <<>>,
          exc |-> FileNotFoundError(YamlBasePath(file_name))]

\* Apply loop, steps 1-4 for the current file: read the packaged manifest,
\* substitute the image, write the result under /tmp.
prod_apply_render(i) ==
    /\ inv[i].pc = "apply_render"
    /\ inv[i].rev = RevProd
    /\ LET me == inv[i]
           file_name == FilesToDeploy(me.namespace)[me.file]
           f == open_manifest(pkg, file_name)
       IN IF f.raised
          THEN /\ inv' = [inv EXCEPT ![i] =
                            [me EXCEPT !.pc = "done",
                                       !.resp = prod_error(me.action, f.exc)]]
               /\ fs' = fs
          ELSE /\ inv' = [inv EXCEPT ![i] = [me EXCEPT !.pc = "apply_kubectl"]]
               /\ fs' = WriteFile(fs, YamlTmpPath(file_name),
                                  Render(f.text, me.image))
    /\ UNCHANGED <<pkg, loggerVars, pureVars>>

\* Apply loop, step 5 for the current file, then the next file, the unified
\* return after the last one, or the except block.
prod_apply_kubectl(i) ==
    /\ inv[i].pc = "apply_kubectl"
    /\ inv[i].rev = RevProd
    /\ \E outcome \in KubectlOutcomes :
          LET me == inv[i]
              files == FilesToDeploy(me.namespace)
              yaml_tmp_path == YamlTmpPath(files[me.file])
              args == ApplyArgs(yaml_tmp_path)
              r == run_kubectl(me.kubeconfig_path, args, outcome)
              call == KubectlCall(args, outcome,
                                  FilesRead(fs, {KubeconfigPath, yaml_tmp_path}))
              ran == [me EXCEPT !.calls = Append(@, call)]
              all_results == Append(me.all_results, r.value)
          IN inv' = [inv EXCEPT ![i] =
               IF r.raised
               THEN [ran EXCEPT !.pc = "done",
                                !.resp = prod_error(me.action, r.exc)]
               ELSE IF me.file < Len(files)
               THEN [ran EXCEPT !.pc = "apply_render", !.file = @ + 1,
                                !.result = r.value, !.all_results = all_results]
               ELSE [ran EXCEPT !.pc = "done", !.result = r.value,
                                !.all_results = all_results,
                                !.resp = prod_success(me.action, me.namespace,
                                                      r.value, all_results)]]
    /\ UNCHANGED <<fs, pkg, loggerVars, pureVars>>

\* ------------------------------------------------------------ specifications
\* The manifests a deployment package may hold.
ManifestFiles(namespaces, roles) ==
    {<<role, ns, ".yaml">> : role \in roles, ns \in namespaces}
PkgLayouts ==
    {ManifestFiles({"qa", "prod"}, {"deployment-", "service-"}),
     ManifestFiles({"prod"}, {"deployment-", "service-"}),
     ManifestFiles({"qa", "prod"}, {"deployment-"}),
     ManifestFiles({"qa", "prod"}, {"service-"})}

LoggerQuiet ==
    /\ queue = {}
    /\ table = {}
    /\ invoked = <<>>
    /\ uuidCtr = 0
    /\ trace = <<>>
    /\ mode = "push"
    /\ hpc = "idle"
    /\ batch = <<>>
    /\ idx = 1
    /\ hret = 0
    /\ pollMsg = None
    /\ pollRet = "none"

ExecQuiet ==
    /\ inv = [i \in Invs |-> IdleInvocation]
    /\ fs = NoFiles
    /\ pkg = ManifestFiles({"qa", "prod"}, {"deployment-", "service-"})

PureQuiet ==
    /\ pfn = "none"
    /\ pargs = <<>>
    /\ pout = <<>>

LoggerInit ==
    /\ \E f \in [MsgIds -> BodyIds] :
          queue = {[id |-> i, body |-> f[i]] : i \in MsgIds}
    /\ table = {}
    /\ invoked = <<>>
    /\ uuidCtr = 0
    /\ trace = <<>>
    /\ mode \in {"poll", "push"}
    /\ hpc = "idle"
    /\ batch = <<>>
    /\ idx = 1
    /\ hret = 0
    /\ pollMsg = None
    /\ pollRet = "none"
    /\ ExecQuiet
    /\ PureQuiet

LoggerNext ==
    \/ poll_and_process_sqs_message
    \/ logger_lambda_handler_start
    \/ logger_lambda_handler_no_records
    \/ logger_lambda_handler_record
    \/ logger_lambda_handler_return

LoggerSpec == LoggerInit /\ [][LoggerNext]_vars

ExecInit ==
    /\ inv = [i \in Invs |-> IdleInvocation]
    /\ fs = NoFiles
    /\ pkg \in PkgLayouts
    /\ LoggerQuiet
    /\ PureQuiet

\* One executor invocation at a time in the execution environment.
ExecNext ==
    \E i \in {1} :
       \/ invoke(i)
       \/ get_caller_identity(i)
       \/ bootstrap(i)
       \/ status_dispatch(i)
       \/ status_kubectl(i)
       \/ prod_dispatch(i)
       \/ prod_kubectl(i)
       \/ prod_apply_render(i)
       \/ prod_apply_kubectl(i)

ExecSpec == ExecInit /\ [][ExecNext]_vars

\* ------------------------- two invocations in one execution environment
\* lambda_handler of nlp-for-devops-eks-prod.py entered with an apply command.
invoke_apply(i) ==
    /\ inv[i].pc = "idle"
    /\ \E n \in NamespaceChoices, im \in ImageChoices :
          inv' = [inv EXCEPT ![i] =
                    [@ EXCEPT !.pc = "sts", !.rev = RevProd,
                              !.event = Event(Some("apply"), n, None, None, im)]]
    /\ UNCHANGED <<fs, pkg, loggerVars, pureVars>>

InterleaveInit == LoggerQuiet /\ ExecQuiet /\ PureQuiet

\* Both invocations run the handler's code over the same /tmp, their steps
\* interleaved in any order.
InterleaveNext ==
    \E i \in Invs :
       \/ invoke_apply(i)
       \/ get_caller_identity(i)
       \/ bootstrap(i)
       \/ prod_dispatch(i)
       \/ prod_apply_render(i)
       \/ prod_apply_kubectl(i)

InterleaveSpec == InterleaveInit /\ [][InterleaveNext]_vars

\* ---------------------------------- consumer and executor, end to end
\* The Lambda service starts nlp-for-devops-eks-prod with an event the
\* consumer handed over (InvocationType='Event': the consumer's invoke call
\* returned when the event was queued; delivery is at least once).
deliver_async_event(i) ==
    /\ inv[i].pc = "idle"
    /\ \E k \in DOMAIN invoked :
          inv' = [inv EXCEPT ![i] =
                    [@ EXCEPT !.pc = "sts", !.rev = RevProd,
                              !.event = invoked[k]]]
    /\ UNCHANGED <<fs, pkg, loggerVars, pureVars>>

\* A queue holding one build event.
PipelineInit ==
    /\ \E b \in BodyIds : queue = {[id |-> 1, body |-> b]}
    /\ table = {}
    /\ invoked = <<>>
    /\ uuidCtr = 0
    /\ trace = <<>>
    /\ mode \in {"poll", "push"}
    /\ hpc = "idle"
    /\ batch = <<>>
    /\ idx = 1
    /\ hret = 0
    /\ pollMsg = None
    /\ pollRet = "none"
    /\ ExecQuiet
    /\ PureQuiet

\* The consumer runs as in LoggerNext; each event it handed over may be run
\* by the executor, one invocation at a time.
PipelineNext ==
    \/ LoggerNext
    \/ \E i \in {1} :
          \/ deliver_async_event(i)
          \/ get_caller_identity(i)
          \/ bootstrap(i)
          \/ prod_dispatch(i)
          \/ prod_apply_render(i)
          \/ prod_apply_kubectl(i)

PipelineSpec == PipelineInit /\ [][PipelineNext]_vars

\* -------------------------------------------- the pure functions on their own
\* Sequences over S of length at most n.
SeqsUpTo(S, n) == UNION {[1 .. k -> S] : k \in 0 .. n}

\* The concatenation of a sequence of texts.
RECURSIVE Concat(_)
Concat(texts) ==
    IF texts = <<>> THEN <<>> ELSE Head(texts) \o Concat(Tail(texts))

\* Manifest texts: up to MaxChunks pieces, each the placeholder, a part of it
\* ("__IMAGE", "_TAG__", "TAG__") or other text.
ManifestChunks ==
    {Placeholder, SubSeq(Placeholder, 1, 7), SubSeq(Placeholder, 8, 13),
     SubSeq(Placeholder, 9, 13), <<"image: ">>}
ManifestTexts == {Concat(c) : c \in SeqsUpTo(ManifestChunks, MaxChunks)}

\* Image references a command may carry: event.get("image", "latest") is any
\* string the caller sent.
ImageRefs ==
    {<<"latest">>,
     <<"foo", Slash, "bar", Colon, "v1">>,
     <<"my", "_", "app", Colon, "v1">>,
     <<"app", Colon>> \o Placeholder,
     <<"_">>,
     <<>>}

\* Repository URLs a build event may carry: None (the key is absent), or a
\* path of up to MaxUrlLen tokens, on its own or behind a scheme and a host.
SchemeHost == <<"https:", Slash, Slash, "github.com">>
UrlPaths == SeqsUpTo({Slash, "acme", "widget"}, MaxUrlLen)
RepoUrls ==
    {None} \cup {Some(path) : path \in UrlPaths \cup {UrlBare, UrlTrailing}}
           \cup {Some(SchemeHost) }
           \cup {Some(SchemeHost \o <<Slash>> \o path) : path \in UrlPaths}
Versions == {"1.2.3", "latest"}

\* Render applied to a manifest text and an image reference (one application
\* in a behaviour).
call_Render ==
    /\ pfn = "none"
    /\ \E yaml_text \in ManifestTexts, image \in ImageRefs :
          /\ pfn' = "Render"
          /\ pargs' = <<yaml_text, image>>
          /\ pout' = Render(yaml_text, image)
    /\ UNCHANGED <<loggerVars, execVars>>

\* extract_full_image_tag applied to a repository URL and a version (one
\* application in a behaviour).
call_extract_full_image_tag ==
    /\ pfn = "none"
    /\ \E repo_url \in RepoUrls, version \in Versions :
          /\ pfn' = "extract_full_image_tag"
          /\ pargs' = <<repo_url, version>>
          /\ pout' = extract_full_image_tag(repo_url, version)
    /\ UNCHANGED <<loggerVars, execVars>>

PureInit == LoggerQuiet /\ ExecQuiet /\ PureQuiet

PureNext == call_Render \/ call_extract_full_image_tag

PureSpec == PureInit /\ [][PureNext]_vars

\* ============================================================ properties
\* ------------------------------------------------ queue consumer (C1 - C6)
\* Positions of the trace holding a call of operation op for message mid.
CallsOf(op, mid) ==
    {k \in DOMAIN trace : trace[k].op = op /\ trace[k].mid = mid}

\* Message mid went through json.loads, the audit put and the trigger, each
\* answered without error, in that order, in the current invocation.
Succeeded(mid) ==
    \E a, b, c \in DOMAIN trace :
       /\ a < b /\ b < c
       /\ trace[a] = Call("json_loads", mid, TRUE)
       /\ trace[b] = Call("put_item", mid, TRUE)
       /\ trace[c] = Call("invoke", mid, TRUE)

Attempted(mid) == CallsOf("json_loads", mid) # {}

DeleteIssued == \E k \in DOMAIN trace : trace[k].op = "delete_message"

\* C1: in manual-poll mode a delete is issued only for a message whose parse,
\* audit put and trigger all completed without error, and it is issued after
\* them; when any of the three failed, no delete is issued and the message is
\* still in the queue.
C1_DeleteOnlyAfterSuccess ==
    mode = "poll" =>
       /\ \A k \in DOMAIN trace :
             trace[k].op = "delete_message" =>
                /\ pollMsg # None
                /\ trace[k].mid = pollMsg[1].id
                /\ Succeeded(trace[k].mid)
                /\ \A j \in DOMAIN trace : j # k => j < k
       /\ (pollMsg # None /\ ~Succeeded(pollMsg[1].id)) =>
             /\ ~DeleteIssued
             /\ pollMsg[1] \in queue
             /\ pollRet = "False"

\* A poll that processed its message and deleted it.
C1_Witness ==
    /\ mode = "poll"
    /\ pollRet = "True"
    /\ pollMsg # None /\ pollMsg[1] \notin queue
    /\ trace[Len(trace)] = Call("delete_message", pollMsg[1].id, TRUE)

\* C2: in push mode the handler returns (statusCode 200) only if every record
\* of the batch was parsed, persisted and triggered without error; a record
\* whose processing fails makes the handler raise, it is never passed over.
C2_ReturnsOnlyIfAllSucceeded ==
    mode = "push" =>
       /\ hret = 200 <=> hpc = "returned"
       /\ hpc = "returned" => \A k \in DOMAIN batch : Succeeded(batch[k].id)
       /\ hpc = "loop" => \A k \in DOMAIN batch : k < idx => Succeeded(batch[k].id)
       /\ \A k \in DOMAIN batch :
             (Attempted(batch[k].id) /\ ~Succeeded(batch[k].id)) =>
                hpc = "raised" /\ hret = 0

\* A batch of two records that ran through and returned 200.
C2_Witness ==
    /\ mode = "push"
    /\ hpc = "returned" /\ hret = 200
    /\ Len(batch) = 2

\* C3 as stated: a record following a failed record is still attempted in
\* the same invocation.
C3_NextRecordStillAttempted ==
    (mode = "push" /\ hpc = "raised" /\ idx < Len(batch)) =>
       Attempted(batch[idx + 1].id)

\* The records the current invocation has started on, in the order it did.
AttemptOrder ==
    LET P == {k \in DOMAIN trace : trace[k].op = "json_loads"}
        nth[n \in 0 .. Len(trace)] ==
            IF n = 0 THEN <<>>
            ELSE IF n \in P THEN Append(nth[n - 1], trace[n].mid)
            ELSE nth[n - 1]
    IN nth[Len(trace)]

\* C3 (amended): records are processed in delivery order, one at a time; the
\* first record whose processing fails makes the handler raise at once, no
\* later record of the batch is attempted in that invocation, and the whole
\* batch stays in the queue for redelivery.
C3_FailureAbortsBatch ==
    mode = "push" =>
       /\ \A n \in DOMAIN AttemptOrder :
             n <= Len(batch) /\ AttemptOrder[n] = batch[n].id
       /\ Len(AttemptOrder) <= Len(batch)
       /\ \A j, k \in DOMAIN batch :
             (j < k /\ Attempted(batch[k].id)) => Succeeded(batch[j].id)
       /\ hpc = "raised" =>
             /\ \A k \in DOMAIN batch : k > idx => ~Attempted(batch[k].id)
             /\ Range(batch) \subseteq queue

\* The first of two records failed: the handler raised with the second one
\* untouched.
C3_Witness ==
    /\ mode = "push"
    /\ hpc = "raised"
    /\ Len(batch) = 2 /\ idx = 1
    /\ Attempted(batch[1].id)

\* C4: the trigger of a record is issued only right after that record's audit
\* put succeeded; a failed put ends the processing of the record with an
\* error and no trigger is issued for it.
C4_TriggerOnlyAfterPut ==
    /\ \A k \in DOMAIN trace :
          trace[k].op = "invoke" =>
             k > 1 /\ trace[k - 1] = Call("put_item", trace[k].mid, TRUE)
    /\ \A k \in DOMAIN trace :
          trace[k] = Call("put_item", trace[k].mid, FALSE) =>
             /\ k = Len(trace)
             /\ CallsOf("invoke", trace[k].mid) = {}
             /\ mode = "push" => hpc = "raised"
             /\ mode = "poll" => pollRet = "False"

\* A failed put ended a record's processing (push mode).
C4_Witness ==
    /\ mode = "push"
    /\ trace # <<>>
    /\ trace[Len(trace)].op = "put_item" /\ ~trace[Len(trace)].ok
    /\ hpc = "raised"

\* What the sample bodies must give, worked out by hand from the Python text:
\* the environment of the row and the command handed to the executor.
ExpectedEnvironment(b) ==
    CASE b = 3 -> "qa"
      [] b = 4 -> "prod"
      [] OTHER -> "QA"
ExpectedCommand(b) ==
    CASE b = 3 -> [action |-> "apply", namespace |-> "qa",
                   image |-> <<"org", "/", "app", ":", "9-abc">>]
      [] b = 4 -> [action |-> "apply", namespace |-> "prod",
                   image |-> <<"acme", "/", "widget", ":", "1.2.3">>]
      [] OTHER -> [action |-> "apply", namespace |-> "QA",
                   image |-> <<"N/A", ":", "latest">>]

\* The messages the current invocation was handed.
CurrentMessages == IF mode = "poll" THEN Range(pollMsg) ELSE Range(batch)

\* The payload accepted by the successful invoke call at trace position k:
\* the payloads of the current invocation are the last ones of invoked.
PayloadOfCall(k) ==
    LET later == {j \in DOMAIN trace :
                     j > k /\ trace[j].op = "invoke" /\ trace[j].ok}
    IN invoked[Len(invoked) - Cardinality(later)]

\* C5: one successful processing of a record makes exactly one put and one
\* invoke call; the command is apply, its namespace is the row's environment
\* (the record's, or prod when absent) and its image is the row's
\* full_image_tag derived from repo_url and version.
C5_OneRowOneCommand ==
    \A k \in DOMAIN trace :
       (trace[k].op = "invoke" /\ trace[k].ok) =>
          \E m \in CurrentMessages :
             /\ m.id = trace[k].mid
             /\ Cardinality(CallsOf("put_item", m.id)) = 1
             /\ Cardinality(CallsOf("invoke", m.id)) = 1
             /\ Len(invoked) <= Cardinality(table)
             /\ PayloadOfCall(k) = ExpectedCommand(m.body)
             /\ \E row \in table :
                   /\ row.sqs_message_id = m.id
                   /\ row.environment = ExpectedEnvironment(m.body)
                   /\ row.environment = PayloadOfCall(k).namespace
                   /\ row.full_image_tag = PayloadOfCall(k).image

\* The record {repo_url: org/app, version: 9-abc, environment: qa} was
\* processed successfully.
C5_Witness ==
    \E k \in DOMAIN trace :
       /\ trace[k] = Call("invoke", trace[k].mid, TRUE)
       /\ \E m \in CurrentMessages : m.id = trace[k].mid /\ m.body = 3
       /\ \E row \in table : row.environment = "qa"

RowsOf(tbl, mid) == {r \in tbl : r.sqs_message_id = mid}

\* The put call of the step just taken, when the step made one.
LastPut(tr) ==
    LET P == {k \in DOMAIN tr : tr[k].op = "put_item"}
    IN tr[CHOOSE k \in P : \A j \in P : j <= k]

\* C6: every processing attempt draws a fresh build id, so each successful
\* put adds a row and overwrites none (a message processed again gets a
\* second row), and each successful trigger is one more command.
C6_FreshBuildIdPerAttempt ==
    [][ (uuidCtr' # uuidCtr /\ LastPut(trace').ok) =>
           LET m == LastPut(trace').mid IN
           /\ table \subseteq table'
           /\ Cardinality(RowsOf(table', m)) = Cardinality(RowsOf(table, m)) + 1
           /\ \A r \in table : \A r2 \in table' \ table : r.build_id # r2.build_id
           /\ (trace'[Len(trace')] = Call("invoke", m, TRUE))
                 => Len(invoked') = Len(invoked) + 1
      ]_vars

\* A message processed twice: two rows with distinct build ids, two commands.
C6_Witness ==
    /\ \E r1, r2 \in table :
          r1.sqs_message_id = r2.sqs_message_id /\ r1.build_id # r2.build_id
    /\ Len(invoked) >= 2
    /\ invoked[1] = invoked[2]

\* ------------------------------------------------------ executor (C7 - C10)
\* The command's action, as both revisions read it.
CommandAction(e) == Get(e, "action", "get")

\* The parameters the command table requires for an action.
RequiredParameters(action) ==
    CASE action \in {"status", "describe", "restart"} -> {"deployment"}
      [] action = "set_image" -> {"deployment", "container", "image"}
      [] OTHER -> {}

\* The command lacks a parameter its action requires.
LacksRequired(e) == ~(RequiredParameters(CommandAction(e)) \subseteq DOMAIN e)

RecognizedActions ==
    {"get", "status", "describe", "restart", "apply", "set_image"}

\* The bootstrap of invocation i succeeded and the handler went on.
Bootstrapped(i) == inv[i].kubeconfig_path # None

\* The response of invocation i is the "Unknown action" rejection.
IsUnknownAction(i) ==
    /\ inv[i].resp.statusCode = 400
    /\ LET message == IF inv[i].rev = RevStatus
                      THEN inv[i].resp.body.message ELSE inv[i].resp.message
       IN message[1] = "Unknown action: "

\* C7: every cluster operation of an invocation is issued after its bootstrap
\* succeeded, with the kubeconfig the bootstrap wrote; an invocation whose
\* bootstrap failed returns 500 and issues no cluster operation.
C7_BootstrapBeforeClusterOps ==
    \A i \in Invs :
       /\ \A k \in DOMAIN inv[i].calls :
             /\ inv[i].kubeconfig_path = Some(KubeconfigPath)
             /\ inv[i].calls[k].files[KubeconfigPath] = Some(KubeconfigContent)
       /\ inv[i].pc \notin {"idle", "sts", "bootstrap", "raised", "done"}
             => Bootstrapped(i)
       /\ (inv[i].pc = "done" /\ ~Bootstrapped(i)) =>
             /\ inv[i].resp.statusCode = 500
             /\ inv[i].calls = <<>>

\* An invocation that bootstrapped and then ran a cluster operation.
C7_Witness ==
    \E i \in Invs :
       /\ inv[i].pc = "done"
       /\ Bootstrapped(i)
       /\ inv[i].calls # <<>>

\* C8 as stated: a command lacking a required parameter is answered with
\* statusCode 400, never 500 or 200.
C8_MissingParameterGives400 ==
    \A i \in Invs :
       (inv[i].pc = "done" /\ Bootstrapped(i) /\ LacksRequired(inv[i].event))
          => inv[i].resp.statusCode = 400

\* C9: an invocation whose command lacks a required parameter never starts a
\* cluster operation, whatever it returns.
C9_NoClusterOpOnMissingParameter ==
    \A i \in Invs :
       (inv[i].pc # "idle" /\ LacksRequired(inv[i].event))
          => inv[i].calls = <<>>

\* set_image without its parameters went through the dispatch of the revision
\* that knows the action, and the invocation is over.
C9_Witness ==
    \E i \in Invs :
       /\ inv[i].pc = "done"
       /\ Bootstrapped(i)
       /\ inv[i].rev = RevProd
       /\ CommandAction(inv[i].event) = "set_image"
       /\ LacksRequired(inv[i].event)
       /\ inv[i].calls = <<>>

\* C10 as stated: the "Unknown action" rejection is returned exactly when the
\* action is none of the six recognized ones, and then without any cluster
\* operation.
C10_UnknownExactlyWhenUnrecognized ==
    \A i \in Invs :
       (inv[i].pc = "done" /\ Bootstrapped(i)) =>
          /\ IsUnknownAction(i)
                <=> CommandAction(inv[i].event) \notin RecognizedActions
          /\ IsUnknownAction(i) => inv[i].calls = <<>>

\* ---------------------------------------------------- executor (C11 - C20)
\* Invocation i runs the apply branch of nlp-for-devops-eks-prod.py.
ApplyInvocation(i) == inv[i].rev = RevProd /\ inv[i].action = "apply"

\* The namespace a command names, lower-cased; "prod" when it names none.
CommandNamespace(e) ==
    IF "namespace" \notin DOMAIN e THEN "prod"
    ELSE IF e["namespace"] \in {"qa", "QA"} THEN "qa"
    ELSE e["namespace"]

\* The kubectl arguments applying the rendered manifest of a role.
ApplyOf(role, ns) == <<"apply", "-f", <<"/tmp/", role, ns, ".yaml">> >>

\* C11: the apply branch applies deployment-<namespace>.yaml and then
\* service-<namespace>.yaml, one call each, and returns 200 only when both
\* calls succeeded, with the two outputs joined in that order.
C11_ApplyInFixedOrder ==
    \A i \in Invs :
       ApplyInvocation(i) =>
          LET ns == CommandNamespace(inv[i].event)
              calls == inv[i].calls
          IN /\ Len(calls) <= 2
             /\ Len(calls) >= 1 => calls[1].args = ApplyOf("deployment-", ns)
             /\ Len(calls) = 2 => calls[2].args = ApplyOf("service-", ns)
             /\ (inv[i].pc = "done" /\ inv[i].resp.statusCode = 200) =>
                   /\ Len(calls) = 2
                   /\ calls[1].outcome = "ok"
                   /\ calls[2].outcome = "ok"
                   /\ inv[i].resp.output =
                         <<"stdout of", ApplyOf("deployment-", ns), "\n---\n",
                           "stdout of", ApplyOf("service-", ns)>>

\* An apply for namespace "QA" that applied both manifests and returned 200.
C11_Witness ==
    \E i \in Invs :
       /\ ApplyInvocation(i)
       /\ inv[i].pc = "done"
       /\ inv[i].resp.statusCode = 200
       /\ "namespace" \in DOMAIN inv[i].event
       /\ inv[i].event["namespace"] = "QA"
       /\ Len(inv[i].calls) = 2

\* C12: in the apply branch a failed apply is the invocation's last cluster
\* operation (after a failed first apply the second manifest is not applied),
\* no manifest is applied twice, nothing but "apply" is run (a manifest
\* already applied is not rolled back), and an invocation with a failed apply
\* returns 500.
C12_FailedApplyAbortsWith500 ==
    \A i \in Invs :
       ApplyInvocation(i) =>
          LET calls == inv[i].calls
          IN /\ \A k \in DOMAIN calls :
                   /\ k < Len(calls) => calls[k].outcome = "ok"
                   /\ calls[k].args[1] = "apply"
                   /\ \A j \in DOMAIN calls : j # k => calls[j].args # calls[k].args
             /\ (inv[i].pc = "done" /\ \E k \in DOMAIN calls : calls[k].outcome # "ok")
                   => inv[i].resp.statusCode = 500

\* The first apply succeeded, the second exited non-zero, and the invocation
\* returned 500.
C12_Witness ==
    \E i \in Invs :
       /\ ApplyInvocation(i)
       /\ inv[i].pc = "done"
       /\ Len(inv[i].calls) = 2
       /\ inv[i].calls[1].outcome = "ok"
       /\ inv[i].calls[2].outcome = "nonzero"
       /\ inv[i].resp.statusCode = 500

\* Both manifests of namespace ns are in the deployment package.
ManifestsPackaged(ns) ==
    {<<"deployment-", ns, ".yaml">>, <<"service-", ns, ".yaml">>} \subseteq pkg

\* C13: an apply for a namespace lacking one of its two manifests returns
\* 500 with no output field, and every manifest it did apply is rendered
\* from that namespace's own file (no other manifest stands in).
C13_MissingManifestGives500 ==
    \A i \in Invs :
       (ApplyInvocation(i) /\ ~ManifestsPackaged(CommandNamespace(inv[i].event))) =>
          LET ns == CommandNamespace(inv[i].event)
              calls == inv[i].calls
          IN /\ inv[i].pc = "done" =>
                   /\ inv[i].resp.statusCode = 500
                   /\ "output" \notin DOMAIN inv[i].resp
             /\ \A k \in DOMAIN calls :
                   /\ <<calls[k].args[3][2], ns, ".yaml">> \in pkg
                   /\ calls[k].files[calls[k].args[3]][1][2] = ns

\* An apply for a namespace whose workload manifest is packaged and whose
\* service manifest is not: the workload was applied, the answer is 500.
C13_Witness ==
    \E i \in Invs :
       /\ ApplyInvocation(i)
       /\ inv[i].pc = "done"
       /\ ~ManifestsPackaged(CommandNamespace(inv[i].event))
       /\ Len(inv[i].calls) = 1
       /\ inv[i].calls[1].outcome = "ok"
       /\ inv[i].resp.statusCode = 500

\* The message of the envelope invocation i returned (<<>> when it has none).
EnvelopeMessage(i) ==
    LET resp == inv[i].resp
    IN IF inv[i].rev = RevStatus
       THEN IF "body" \in DOMAIN resp THEN Get(resp.body, "message", <<>>) ELSE <<>>
       ELSE Get(resp, "message", <<>>)

\* C14 as stated: no invocation ends with an exception leaving the handler,
\* and every invocation that ends returns statusCode 200, 400 or 500 with a
\* message.
C14_AlwaysReturnsEnvelope ==
    \A i \in Invs :
       /\ inv[i].pc # "raised"
       /\ inv[i].pc = "done" =>
             /\ inv[i].resp.statusCode \in {200, 400, 500}
             /\ EnvelopeMessage(i) # <<>>

\* The error detail of the envelope invocation i returned (<<>> when none).
ErrorDetail(i) ==
    LET resp == inv[i].resp
    IN IF inv[i].rev = RevStatus
       THEN IF "body" \in DOMAIN resp THEN Get(resp.body, "error", <<>>) ELSE <<>>
       ELSE Get(resp, "error", <<>>)

\* C15 as stated: when the last cluster operation of an invocation exited
\* non-zero, the invocation returns 500 and the error detail is the text the
\* operation printed on stdout/stderr.
C15_ErrorCarriesOperationOutput ==
    \A i \in Invs :
       (/\ inv[i].pc = "done"
        /\ inv[i].calls # <<>>
        /\ inv[i].calls[Len(inv[i].calls)].outcome = "nonzero") =>
          LET call == inv[i].calls[Len(inv[i].calls)]
          IN /\ inv[i].resp.statusCode = 500
             /\ ErrorDetail(i) = <<"stdout/stderr of", call.args>>

\* ------------------------------------------------- pure functions (C16, C17)
\* C16 as stated: for every manifest text and every image reference, a text
\* holding the placeholder is rendered to a text that holds the image
\* reference and no placeholder; a text without it is rendered unchanged.
C16_RenderSubstitutesEveryImage ==
    pfn = "Render" =>
       LET yaml_text == pargs[1]
           image == pargs[2]
       IN IF Contains(yaml_text, Placeholder)
          THEN Contains(pout, image) /\ ~Contains(pout, Placeholder)
          ELSE pout = yaml_text

\* The characters (tokens) of a text.
CharsOf(text) == {text[k] : k \in DOMAIN text}

\* An image reference no part of which can become part of a placeholder: it
\* holds no underscore and at least one character foreign to the placeholder.
ForeignImage(image) ==
    /\ "_" \notin CharsOf(image)
    /\ CharsOf(image) \ CharsOf(Placeholder) # {}

\* C16, amended: the same, for every image reference that holds no underscore
\* and at least one character that does not occur in the placeholder; a text
\* without the placeholder is rendered unchanged whatever the image.
C16_RenderSubstitutesForeignImage ==
    pfn = "Render" =>
       LET yaml_text == pargs[1]
           image == pargs[2]
       IN IF Contains(yaml_text, Placeholder)
          THEN ForeignImage(image) =>
                  Contains(pout, image) /\ ~Contains(pout, Placeholder)
          ELSE pout = yaml_text

\* A manifest holding the placeholder twice rendered with foo/bar:v1.
C16_Witness ==
    /\ pfn = "Render"
    /\ pargs[1] = <<"image: ">> \o Placeholder \o Placeholder
    /\ pargs[2] = <<"foo", Slash, "bar", Colon, "v1">>
    /\ pout = <<"image: ", "foo", Slash, "bar", Colon, "v1",
                "foo", Slash, "bar", Colon, "v1">>

\* The path segments of a repository URL: what lies between the "/" of the
\* part after the scheme and the host, empty pieces left out.
PathSegments(url) ==
    LET path == IF StartsWith(url, SchemeHost)
                THEN SubSeq(url, Len(SchemeHost) + 1, Len(url))
                ELSE url
    IN SelectSeq(Split(path), LAMBDA s : s # <<>>)

\* C17 as stated: a URL with at least two path segments gives
\* <owner>/<repo>:<version> from the last two of them; any other URL, and an
\* absent one, gives N/A:<version>.
C17_TagFromLastTwoPathSegments ==
    pfn = "extract_full_image_tag" =>
       LET repo_url == pargs[1]
           version == pargs[2]
           segs == IF repo_url = None THEN <<>> ELSE PathSegments(repo_url[1])
           n == Len(segs)
       IN IF n >= 2
          THEN pout = segs[n - 1] \o <<Slash>> \o segs[n] \o <<Colon, version>>
          ELSE pout = <<"N/A", Colon, version>>

\* ------------------------------------------------------ executor (C18 - C20)
\* The image an apply command carries, "latest" when it carries none.
CommandImage(e) == IF "image" \in DOMAIN e THEN e["image"] ELSE <<"latest">>

\* What the manifest of a role reads once rendered for a namespace and an
\* image.
RenderedManifest(role, ns, image) ==
    IF role = "deployment-"
    THEN <<"kind: Deployment", ns, "image: ">> \o image
    ELSE <<"kind: Service", ns>>

\* C18 as stated: whatever the interleaving, the manifest an invocation hands
\* to kubectl apply reads what that invocation rendered from its own image
\* and namespace, and the kubeconfig is the one its bootstrap wrote.
C18_AppliesOwnRendering ==
    \A i \in Invs :
       ApplyInvocation(i) =>
          \A k \in DOMAIN inv[i].calls :
             LET call == inv[i].calls[k]
                 yaml_tmp_path == call.args[3]
             IN /\ call.files[yaml_tmp_path] =
                      Some(RenderedManifest(yaml_tmp_path[2],
                                            CommandNamespace(inv[i].event),
                                            CommandImage(inv[i].event)))
                /\ call.files[KubeconfigPath] = Some(KubeconfigContent)

\* The rendered manifest of a role for namespace ns is under /tmp.
Rendered(role, ns) == <<"/tmp/", role, ns, ".yaml">> \in DOMAIN fs

\* C19 as stated: once an apply invocation has issued a cluster operation,
\* both manifests of its namespace have been read and rendered; an apply
\* whose namespace lacks a manifest ends without any cluster operation.
C19_BothRenderedBeforeFirstApply ==
    \A i \in Invs :
       ApplyInvocation(i) =>
          LET ns == CommandNamespace(inv[i].event)
          IN /\ inv[i].calls # <<>> =>
                   Rendered("deployment-", ns) /\ Rendered("service-", ns)
             /\ (inv[i].pc = "done" /\ ~ManifestsPackaged(ns)) =>
                   inv[i].calls = <<>>

\* Invocation i runs the set_image branch of nlp-for-devops-eks-prod.py.
SetImageInvocation(i) == inv[i].rev = RevProd /\ inv[i].action = "set_image"

\* C20: the set_image branch runs "set image" first and "rollout status
\* --timeout=60s" only after it succeeded, on the deployment, container, image
\* and namespace of the command; it returns 200 only when both succeeded, and
\* 500 when the image was set and the rollout wait failed.
C20_RolloutOnlyAfterSetImage ==
    \A i \in Invs :
       SetImageInvocation(i) =>
          LET e == inv[i].event
              ns == CommandNamespace(e)
              calls == inv[i].calls
          IN /\ Len(calls) <= 2
             /\ Len(calls) >= 1 =>
                   calls[1].args = <<"set", "image", <<"deployment/", e["deployment"]>>,
                                     <<e["container"], "=", e["image"]>>, "-n", ns>>
             /\ Len(calls) = 2 =>
                   /\ calls[1].outcome = "ok"
                   /\ calls[2].args = <<"rollout", "status",
                                        <<"deployment/", e["deployment"]>>,
                                        "-n", ns, "--timeout=60s">>
             /\ (inv[i].pc = "done" /\ inv[i].resp.statusCode = 200) =>
                   /\ Len(calls) = 2
                   /\ calls[2].outcome = "ok"
             /\ (inv[i].pc = "done" /\ \E k \in DOMAIN calls : calls[k].outcome # "ok")
                   => inv[i].resp.statusCode = 500

\* The image was set, the rollout wait exited non-zero, the answer is 500.
C20_Witness ==
    \E i \in Invs :
       /\ SetImageInvocation(i)
       /\ inv[i].pc = "done"
       /\ Len(inv[i].calls) = 2
       /\ inv[i].calls[1].outcome = "ok"
       /\ inv[i].calls[2].outcome = "nonzero"
       /\ inv[i].resp.statusCode = 500

\* ------------------------------------- consumer and executor (C21 - C24)
\* The poll just made committed its message: delete_message was answered
\* without error.
PollCommitted ==
    /\ pollMsg # None
    /\ trace # <<>>
    /\ trace[Len(trace)] = Call("delete_message", pollMsg[1].id, TRUE)

\* The commit follows from the consumer's own calls: a poll commits (returns
\* True, the message leaves the queue) exactly when parse, audit put,
\* hand-off and delete succeeded; a push invocation returns, and its batch
\* leaves the queue, only when every record was put and handed over; the
\* executor runs only events that were handed over.
CommitFollowsHandOff ==
    /\ mode = "poll" =>
          /\ pollRet = "True" <=> (PollCommitted /\ Succeeded(pollMsg[1].id))
          /\ pollRet = "True" => pollMsg[1] \notin queue
    /\ (mode = "push" /\ hpc = "returned") =>
          /\ \A k \in DOMAIN batch : Succeeded(batch[k].id)
          /\ Range(batch) \cap queue = {}
    /\ \A i \in Invs :
          inv[i].pc # "idle" => inv[i].event \in Range(invoked)

\* C21: whether a message is committed follows from the consumer's own calls
\* alone (put, hand-off, delete), and no step of the executor, whatever the
\* outcome of the apply, touches the queue, the audit table or the
\* consumer's result.
C21_CommitIgnoresDeployment ==
    /\ []CommitFollowsHandOff
    /\ [][inv' # inv =>
            UNCHANGED <<queue, table, invoked, trace, hpc, hret, pollMsg, pollRet>>
         ]_vars

\* A polled message is committed, and the apply it triggered has returned
\* 500 after a failed cluster operation.
C21_Witness ==
    /\ mode = "poll"
    /\ pollRet = "True"
    /\ pollMsg[1] \notin queue
    /\ inv[1].pc = "done"
    /\ inv[1].event = invoked[Len(invoked)]
    /\ inv[1].calls # <<>>
    /\ inv[1].resp.statusCode = 500

\* The namespace a kubectl call names: what follows "-n", or the namespace
\* in the name of the manifest it applies.
NamespaceOfCall(args) ==
    CASE args[1] = "get" -> args[4]
      [] args[1] \in {"rollout", "describe"} -> args[5]
      [] args[1] = "set" -> args[6]
      [] OTHER -> args[3][3]

\* C22 as stated: every cluster operation, and every manifest file name, of
\* either revision uses the command's namespace in lower case, "prod" when
\* the command names none.
C22_NamespaceLowerCased ==
    \A i \in Invs :
       \A k \in DOMAIN inv[i].calls :
          NamespaceOfCall(inv[i].calls[k].args) = CommandNamespace(inv[i].event)

\* Push mode, the handler has raised on a record that followed successful
\* ones: each of those has its audit row and its command from this very
\* invocation, and the whole batch is still queued.
RaisedAfterSuccess ==
    (mode = "push" /\ hpc = "raised") =>
       /\ Range(batch) \subseteq queue
       /\ \A k \in DOMAIN batch :
             k < idx =>
                /\ Succeeded(batch[k].id)
                /\ RowsOf(table, batch[k].id) # {}
                /\ \E n \in DOMAIN invoked :
                      invoked[n] = ExpectedCommand(batch[k].body)

\* C23: in push mode a handler that raises on a later record leaves the
\* rows and commands of the earlier records of the batch in place and the
\* batch in the queue; every successful processing of a record, redelivered
\* or not, adds one audit row for its message and one apply command.
C23_RedeliveryDuplicates ==
    /\ []RaisedAfterSuccess
    /\ [][(mode = "push" /\ hpc = "loop" /\ idx' = idx + 1) =>
            LET m == batch[idx] IN
            /\ Cardinality(RowsOf(table', m.id))
                  = Cardinality(RowsOf(table, m.id)) + 1
            /\ invoked' = Append(invoked, ExpectedCommand(m.body))
         ]_vars

\* A batch of two whose second record cannot be parsed is being processed
\* again: its first record now has two audit rows and two commands.
C23_Witness ==
    /\ mode = "push"
    /\ hpc = "loop"
    /\ Len(batch) = 2 /\ idx = 2
    /\ batch[2].body = 1
    /\ batch[2] \in queue
    /\ Cardinality(RowsOf(table, batch[1].id)) = 2
    /\ Len(invoked) = 2
    /\ invoked[1] = invoked[2]

\* The poll's receive_message call was answered and brought no message.
NothingReceived ==
    /\ pollMsg = None
    /\ trace = <<Call("get_queue_url", 0, TRUE), Call("receive_message", 0, TRUE)>>

\* C24: every poll returns True, False or None.  True exactly when a message
\* was received, parsed, put, handed over and its delete was answered without
\* error; None exactly when the receive call brought no message; False
\* otherwise.  After a failed delete the poll returns False, the audit row and
\* the command exist and the message is still in the queue.
C24_PollReturnValue ==
    (mode = "poll" /\ pollRet # "none") =>
       /\ pollRet \in {"True", "False", "None"}
       /\ pollRet = "True" <=> (PollCommitted /\ Succeeded(pollMsg[1].id))
       /\ pollRet = "None" <=> NothingReceived
       /\ (pollMsg # None
           /\ trace[Len(trace)] = Call("delete_message", pollMsg[1].id, FALSE)) =>
             /\ pollRet = "False"
             /\ Succeeded(pollMsg[1].id)
             /\ RowsOf(table, pollMsg[1].id) # {}
             /\ invoked # <<>>
             /\ invoked[Len(invoked)] = ExpectedCommand(pollMsg[1].body)
             /\ pollMsg[1] \in queue

\* A poll whose delete failed after the message was put and handed over.
C24_Witness ==
    /\ mode = "poll"
    /\ pollRet = "False"
    /\ pollMsg # None
    /\ trace[Len(trace)] = Call("delete_message", pollMsg[1].id, FALSE)
    /\ RowsOf(table, pollMsg[1].id) # {}
    /\ pollMsg[1] \in queue

====
